---- MODULE Spec2Model ----
(***************************************************************************)
(* A model of the Swap SDK client (src/src/SwapSDK.ts): the SwapSDK class  *)
(* with its auth token, its axios instance, the request and response       *)
(* interceptors registered by the constructor, the private get/post        *)
(* helpers and the seven endpoint methods.                                 *)
(*                                                                         *)
(* An endpoint call is followed through its asynchronous steps:            *)
(*   idle -> issued       the endpoint method ran up to client.get/post    *)
(*   issued -> sent       the request interceptor ran (a later microtask)  *)
(*   sent -> settled      the transport settled, the response interceptor  *)
(*                        ran and the awaiting method returned or threw    *)
(***************************************************************************)
EXTENDS Naturals, Sequences, FiniteSets, TLC

VARIABLES
    authToken,     \* SwapSDK.authToken of each client instance (a JS value)
    client,        \* SwapSDK.client of each instance: the axios instance's defaults
    calls,         \* the endpoint calls made by the caller, each with its progress
    options,       \* history: the options each client was constructed with
    lastAccessor   \* history: the most recent setAuthToken/clearAuthToken of each client

vars == <<authToken, client, calls, options, lastAccessor>>

---------------------------------------------------------------------------
(* JavaScript values, as far as the SDK looks at them.                     *)

Undefined == [type |-> "undefined"]
Str(s) == [type |-> "string", value |-> s]
Num(n) == [type |-> "number", value |-> n]
Obj(f) == [type |-> "object", fields |-> f]

NoFields == [k \in {} |-> Undefined]

\* ToBoolean, as applied by `if (x)` and by `x || y`.
Truthy(v) ==
    CASE v.type = "undefined" -> FALSE
      [] v.type = "string" -> v.value # ""
      [] v.type = "number" -> v.value # 0
      [] OTHER -> TRUE

\* a || b
OrElse(a, b) == IF Truthy(a) THEN a ELSE b

\* v.k : undefined when v has no property k.
Prop(v, k) ==
    IF v.type = "object" /\ k \in DOMAIN v.fields THEN v.fields[k] ELSE Undefined

\* v?.k : undefined when v is undefined, v.k otherwise.
OptChain(v, k) == IF v.type = "undefined" THEN Undefined ELSE Prop(v, k)

\* `${v}` : the string a template literal makes of v.
ToStr(v) ==
    CASE v.type = "string" -> v.value
      [] v.type = "undefined" -> "undefined"
      [] OTHER -> "[object Object]"

\* { ...a, ...b } : the keys of b override those of a.
Spread(a, b) == [k \in (DOMAIN a) \cup (DOMAIN b) |-> IF k \in DOMAIN b THEN b[k] ELSE a[k]]

\* an object with one more property set: o[k] = v
WithKey(o, k, v) == [j \in (DOMAIN o) \cup {k} |-> IF j = k THEN v ELSE o[j]]

---------------------------------------------------------------------------
(* Bounds and input sets.                                                  *)

MaxCalls == 2
\* SwapSDK instances constructed in SpecClients
MaxClients == 2

\* an object literal without its undefined properties
Compact(f) == [k \in {j \in DOMAIN f : f[j] # Undefined} |-> f[k]]

Tokens == {"", "tokA", "tokB"}
SwapIds == {"swap-123", "history", "status/swap-123", "currencies", "range", ""}
Symbols == {"zec", "sol"}
Amounts == {0, 1}

\* CreateExchangeRequest: the refund fields are optional
ExchangeRequests ==
    { Obj(Compact([ fromCurrency |-> Str("zec"), toCurrency |-> Str("sol"),
                    amount |-> Num(1), recipientAddress |-> Str("0x1234567890abcdef"),
                    refundAddress |-> ra, refundExtraId |-> rx ])) :
        ra \in {Undefined, Str("0xabcdef1234567890")}, rx \in {Undefined, Str("memo")} }

\* SwapSDKOptions
NoOptions == [k \in {} |-> ""]
HeaderOptions ==
    { NoOptions,
      [baseURL |-> "https://api.test.com"],
      [headers |-> [k \in {"X-Custom"} |-> "1"]],
      [headers |-> [k \in {"Content-Type"} |-> "text/plain"]],
      [headers |-> [k \in {"x-auth-token"} |-> "preset"]] }

\* 2xx responses of the backend
Bodies ==
    { Undefined, Str(""), Obj(NoFields),
      Obj([id |-> Str("swap-123"), status |-> Str("waiting")]) }
Responses == { Obj([status |-> Num(200), data |-> b]) : b \in Bodies }

\* bodies of non-2xx responses: absent, or any combination of message, error, code
ErrorBodies ==
    {Undefined} \cup
    { Obj(Compact([message |-> m, error |-> e, code |-> c])) :
        m \in {Undefined, Str(""), Str("Invalid parameters")},
        e \in {Undefined, Str(""), Str("Bad Request")},
        c \in {Undefined, Str(""), Str("INVALID_PARAMS")} }

\* the raw errors of the transport
RemoteErrors ==
    { Obj(Compact([ response |-> Obj(Compact([status |-> Num(400), data |-> d])),
                    request |-> r,
                    message |-> Str("Request failed with status code 400") ])) :
        d \in ErrorBodies, r \in {Undefined, Obj(NoFields)} }
NetworkErrors ==
    { Obj(Compact([request |-> Obj(NoFields), message |-> m])) :
        m \in {Undefined, Str("timeout of 10000ms exceeded")} }
SetupErrors ==
    { Obj(Compact([message |-> m])) : m \in {Undefined, Str(""), Str("Invalid URL")} }
RawErrors == RemoteErrors \cup NetworkErrors \cup SetupErrors

---------------------------------------------------------------------------
(* Construction.                                                           *)

DefaultBaseURL == "https://zos.computer/"
DefaultTimeout == 10000

\* const { baseURL = ..., timeout = ..., headers = {} } = options
OptionOr(opts, k, default) == IF k \in DOMAIN opts THEN opts[k] ELSE default

\* Variant: { ...headers, 'Content-Type': 'application/json' }
CreateClientFixedContentType(opts) ==
    [ baseURL |-> OptionOr(opts, "baseURL", DefaultBaseURL),
      timeout |-> OptionOr(opts, "timeout", DefaultTimeout),
      headers |-> Spread(OptionOr(opts, "headers", [k \in {} |-> ""]),
                         [k \in {"Content-Type"} |-> "application/json"]) ]

\* axios.create({ baseURL, timeout, headers: { 'Content-Type': ..., ...headers } })
CreateClient(opts) ==
    [ baseURL |-> OptionOr(opts, "baseURL", DefaultBaseURL),
      timeout |-> OptionOr(opts, "timeout", DefaultTimeout),
      headers |-> Spread([k \in {"Content-Type"} |-> "application/json"],
                         OptionOr(opts, "headers", [k \in {} |-> ""])) ]

\* class SwapAPIError: message, and code (undefined when not given)
SwapAPIError(message, code) ==
    [name |-> "SwapAPIError", message |-> message, code |-> code]

---------------------------------------------------------------------------
(* The interceptors registered by the constructor.                         *)

\* Variant: the interceptor tests `this.authToken !== undefined`.
RequestInterceptorIfDefined(token, config) ==
    IF token # Undefined
    THEN [config EXCEPT !.headers = WithKey(config.headers, "x-auth-token", token.value)]
    ELSE config

\* request interceptor: (config) => { if (this.authToken) ...; return config }
RequestInterceptor(token, config) ==
    IF Truthy(token)
    THEN [config EXCEPT !.headers = WithKey(config.headers, "x-auth-token", token.value)]
    ELSE config

\* response interceptor, success: (response) => response
ResponseFulfilled(response) == response

\* Variant: the fields are taken when present (??), empty or not.
ResponseRejectedNullish(error) ==
    IF Truthy(Prop(error, "response"))
    THEN LET data == Prop(Prop(error, "response"), "data")
             message == IF OptChain(data, "message") # Undefined THEN OptChain(data, "message")
                        ELSE IF OptChain(data, "error") # Undefined THEN OptChain(data, "error")
                        ELSE Str("Unknown error occurred")
         IN  SwapAPIError(message, OptChain(data, "code"))
    ELSE IF Truthy(Prop(error, "request"))
    THEN SwapAPIError(Str("Network error: No response received from server"), Undefined)
    ELSE SwapAPIError(Str("Request error: " \o ToStr(Prop(error, "message"))), Undefined)

\* Variant: error.request is tested before error.response.
ResponseRejectedRequestFirst(error) ==
    IF Truthy(Prop(error, "request"))
    THEN SwapAPIError(Str("Network error: No response received from server"), Undefined)
    ELSE IF Truthy(Prop(error, "response"))
    THEN LET data == Prop(Prop(error, "response"), "data")
         IN  SwapAPIError(OrElse(OptChain(data, "message"),
                                 OrElse(OptChain(data, "error"), Str("Unknown error occurred"))),
                          OptChain(data, "code"))
    ELSE SwapAPIError(Str("Request error: " \o ToStr(Prop(error, "message"))), Undefined)

\* Variant: the network failure is given a code of its own.
ResponseRejectedNetworkCode(error) ==
    IF Truthy(Prop(error, "response"))
    THEN LET data == Prop(Prop(error, "response"), "data")
         IN  SwapAPIError(OrElse(OptChain(data, "message"),
                                 OrElse(OptChain(data, "error"), Str("Unknown error occurred"))),
                          OptChain(data, "code"))
    ELSE IF Truthy(Prop(error, "request"))
    THEN SwapAPIError(Str("Network error: No response received from server"),
                      Str("NETWORK_ERROR"))
    ELSE SwapAPIError(Str("Request error: " \o ToStr(Prop(error, "message"))), Undefined)

\* response interceptor, failure: (error) => { ... throw new SwapAPIError(...) }
ResponseRejected(error) ==
    IF Truthy(Prop(error, "response"))
    THEN LET data == Prop(Prop(error, "response"), "data")
             message == OrElse(OptChain(data, "message"),
                               OrElse(OptChain(data, "error"), Str("Unknown error occurred")))
             code == OptChain(data, "code")
         IN  SwapAPIError(message, code)
    ELSE IF Truthy(Prop(error, "request"))
    THEN SwapAPIError(Str("Network error: No response received from server"), Undefined)
    ELSE SwapAPIError(Str("Request error: " \o ToStr(Prop(error, "message"))), Undefined)

---------------------------------------------------------------------------
(* The private helpers get<T> and post<T>.                                 *)

IdleCall == [stage |-> "idle"]

\* Variant: the token is attached when the helper calls axios, not later.
IssuedCapturing(k, method, endpoint, params, data) ==
    [ stage |-> "issued",
      sdk |-> k,
      config |-> RequestInterceptor(authToken[k],
                    [ baseURL |-> client[k].baseURL,
                      method |-> method, url |-> endpoint, params |-> params,
                      data |-> data, headers |-> client[k].headers ]),
      issuedWith |-> authToken[k],
      transportCalls |-> 1 ]

\* The call as it stands when the helper has called the axios instance `k`:
\* the request config merged with the instance's base URL and default
\* headers, the request interceptor not yet run.  issuedWith is history, kept until the
\* interceptor runs: the token that was current at this moment.
\* transportCalls counts the client.get/post calls made for the call.
Issued(k, method, endpoint, params, data) ==
    [ stage |-> "issued",
      sdk |-> k,
      config |-> [ baseURL |-> client[k].baseURL,
                   method |-> method, url |-> endpoint, params |-> params,
                   data |-> data, headers |-> client[k].headers ],
      issuedWith |-> authToken[k],
      transportCalls |-> 1 ]

\* Variant: the helper calls this.client.get(endpoint) without the config.
GetWithoutConfig(k, endpoint, params) == Issued(k, "get", endpoint, Undefined, Undefined)

\* get<T>(endpoint, params): this.client.get(endpoint, { params })
Get(k, endpoint, params) == Issued(k, "get", endpoint, params, Undefined)

\* post<T>(endpoint, data): this.client.post(endpoint, data)
Post(k, endpoint, data) == Issued(k, "post", endpoint, Undefined, data)

\* Variant: return response.data || {}
ResponseDataOrEmpty(response) == OrElse(Prop(response, "data"), Obj(NoFields))

\* return response.data
ResponseData(response) == Prop(response, "data")

\* The awaited axios promise fulfils: the helper returns response.data.
\* raw is history: what the transport delivered.
Fulfil(call, response) ==
    [ stage |-> "settled", sdk |-> call.sdk, op |-> call.op, args |-> call.args,
      config |-> call.config,
      transportCalls |-> call.transportCalls,
      raw |-> response,
      outcome |-> [state |-> "fulfilled", value |-> ResponseData(ResponseFulfilled(response))],
      settlements |-> 1 ]

\* Variant: a failed request is sent once more before the caller hears of it.
RejectAfterRetry(call, error) ==
    IF call.transportCalls < 2
    THEN [ stage |-> "issued", sdk |-> call.sdk, op |-> call.op, args |-> call.args,
           config |-> call.config, issuedWith |-> authToken[call.sdk],
           transportCalls |-> call.transportCalls + 1 ]
    ELSE [ stage |-> "settled", sdk |-> call.sdk, op |-> call.op, args |-> call.args,
           config |-> call.config,
           transportCalls |-> call.transportCalls,
           raw |-> error,
           thrown |-> ResponseRejected(error),
           outcome |-> [state |-> "rejected", reason |-> ResponseRejected(error)],
           settlements |-> 1 ]

\* Variant: the helper catches the rejection and throws an error of its own.
AwaitRejectedWrapped(e) == SwapAPIError(Str("Request failed: " \o ToStr(e.message)), Undefined)

\* `await this.client.get/post(...)` with a rejected promise, in a helper and
\* an endpoint method without try/catch: the rejection value is rethrown.
AwaitRejected(e) == e

\* The awaited axios promise rejects: the helper has no catch, the error the
\* response interceptor threw reaches the caller.  thrown is history: the
\* value the promise of client.get/post rejected with.
Reject(call, error) ==
    [ stage |-> "settled", sdk |-> call.sdk, op |-> call.op, args |-> call.args,
      config |-> call.config,
      transportCalls |-> call.transportCalls,
      raw |-> error,
      thrown |-> ResponseRejected(error),
      outcome |-> [state |-> "rejected", reason |-> AwaitRejected(ResponseRejected(error))],
      settlements |-> 1 ]

---------------------------------------------------------------------------
(* Operations.                                                             *)

\* Variant: the token is kept in one place shared by every SwapSDK instance.
SetAuthTokenShared(k, token) ==
    /\ authToken' = [j \in DOMAIN authToken |-> token]
    /\ lastAccessor' = [lastAccessor EXCEPT ![k] = [op |-> "setAuthToken", token |-> token]]
    /\ UNCHANGED <<client, calls, options>>

\* Variant: setAuthToken keeps the old token when given an empty one.
SetAuthTokenIfTruthy(k, token) ==
    /\ authToken' = [authToken EXCEPT ![k] = IF Truthy(token) THEN token ELSE @]
    /\ lastAccessor' = [lastAccessor EXCEPT ![k] = [op |-> "setAuthToken", token |-> token]]
    /\ UNCHANGED <<client, calls, options>>

\* setAuthToken(token)
SetAuthToken(k, token) ==
    /\ authToken' = [authToken EXCEPT ![k] = token]
    /\ lastAccessor' = [lastAccessor EXCEPT ![k] = [op |-> "setAuthToken", token |-> token]]
    /\ UNCHANGED <<client, calls, options>>

\* clearAuthToken()
ClearAuthToken(k) ==
    /\ authToken' = [authToken EXCEPT ![k] = Undefined]
    /\ lastAccessor' = [lastAccessor EXCEPT ![k] = [op |-> "clearAuthToken"]]
    /\ UNCHANGED <<client, calls, options>>

\* getAuthToken()
GetAuthToken(k) == authToken[k]

\* An endpoint method runs, synchronously, up to the axios call of its
\* helper; op and args are history: the method called and its arguments.
Called(name, args, issued) == issued @@ [op |-> name, args |-> args]

GetCurrencies(c, k) ==
    /\ calls[c].stage = "idle"
    /\ calls' = [calls EXCEPT ![c] =
                    Called("getCurrencies", <<>>, Get(k, "/swap/currencies", Undefined))]
    /\ UNCHANGED <<authToken, client, options, lastAccessor>>

GetExchangeRate(c, k, fromCurrency, toCurrency, amount) ==
    /\ calls[c].stage = "idle"
    /\ calls' = [calls EXCEPT ![c] =
                    Called("getExchangeRate", <<fromCurrency, toCurrency, amount>>,
                           Post(k, "/swap/estimate",
                                Obj([fromCurrency |-> fromCurrency, toCurrency |-> toCurrency,
                                     amount |-> amount])))]
    /\ UNCHANGED <<authToken, client, options, lastAccessor>>

GetExchangeRange(c, k, fromCurrency, toCurrency) ==
    /\ calls[c].stage = "idle"
    /\ calls' = [calls EXCEPT ![c] =
                    Called("getExchangeRange", <<fromCurrency, toCurrency>>,
                           Get(k, "/swap/range",
                               Obj([fromCurrency |-> fromCurrency, toCurrency |-> toCurrency])))]
    /\ UNCHANGED <<authToken, client, options, lastAccessor>>

CreateExchange(c, k, exchangeData) ==
    /\ calls[c].stage = "idle"
    /\ calls' = [calls EXCEPT ![c] =
                    Called("createExchange", <<exchangeData>>,
                           Post(k, "/swap/create", exchangeData))]
    /\ UNCHANGED <<authToken, client, options, lastAccessor>>

GetExchangeStatus(c, k, swapId) ==
    /\ calls[c].stage = "idle"
    /\ calls' = [calls EXCEPT ![c] =
                    Called("getExchangeStatus", <<swapId>>,
                           Get(k, "/swap/status/" \o ToStr(swapId), Undefined))]
    /\ UNCHANGED <<authToken, client, options, lastAccessor>>

GetSwapHistory(c, k) ==
    /\ calls[c].stage = "idle"
    /\ calls' = [calls EXCEPT ![c] =
                    Called("getSwapHistory", <<>>, Get(k, "/swap/history", Undefined))]
    /\ UNCHANGED <<authToken, client, options, lastAccessor>>

\* Variant: getSwapDetails requests the path of getExchangeStatus.
GetSwapDetailsStatusPath(c, k, swapId) ==
    /\ calls[c].stage = "idle"
    /\ calls' = [calls EXCEPT ![c] =
                    Called("getSwapDetails", <<swapId>>,
                           Get(k, "/swap/status/" \o ToStr(swapId), Undefined))]
    /\ UNCHANGED <<authToken, client, options, lastAccessor>>

GetSwapDetails(c, k, swapId) ==
    /\ calls[c].stage = "idle"
    /\ calls' = [calls EXCEPT ![c] =
                    Called("getSwapDetails", <<swapId>>,
                           Get(k, "/swap/" \o ToStr(swapId), Undefined))]
    /\ UNCHANGED <<authToken, client, options, lastAccessor>>

\* The request interceptor runs on the pending request, in a later microtask
\* than the endpoint call, and the request goes to the transport.
Intercept(c) ==
    /\ calls[c].stage = "issued"
    /\ calls' = [calls EXCEPT ![c] =
                    [ stage |-> "sent", sdk |-> @.sdk, op |-> @.op, args |-> @.args,
                      config |-> RequestInterceptor(authToken[@.sdk], @.config),
                      transportCalls |-> @.transportCalls ]]
    /\ UNCHANGED <<authToken, client, options, lastAccessor>>

\* The transport answers with a 2xx response.
TransportFulfils(c, response) ==
    /\ calls[c].stage = "sent"
    /\ calls' = [calls EXCEPT ![c] = Fulfil(@, response)]
    /\ UNCHANGED <<authToken, client, options, lastAccessor>>

\* The transport fails: a non-2xx response, no response, or no request at all.
TransportRejects(c, error) ==
    /\ calls[c].stage = "sent"
    /\ calls' = [calls EXCEPT ![c] = Reject(@, error)]
    /\ UNCHANGED <<authToken, client, options, lastAccessor>>

---------------------------------------------------------------------------
(* Specifications.                                                         *)

\* The state after `new SwapSDK(options)` for each client; no call made yet.
InitWith(in) ==
    /\ authToken = [k \in in.clients |-> Undefined]
    /\ options \in [in.clients -> in.options]
    /\ client = [k \in in.clients |-> CreateClient(options[k])]
    /\ calls = [c \in in.calls |-> IdleCall]
    /\ lastAccessor = [k \in in.clients |-> [op |-> "none"]]

\* One step of the caller or of the event loop, the arguments drawn from `in`.
Step(in) ==
    \/ \E k \in in.clients, t \in in.tokens : SetAuthToken(k, Str(t))
    \/ \E k \in in.clients : ClearAuthToken(k)
    \/ \E c \in in.calls, k \in in.clients : GetCurrencies(c, k)
    \/ \E c \in in.calls, k \in in.clients :
          \E f \in in.symbols, t \in in.symbols, a \in in.amounts :
             GetExchangeRate(c, k, Str(f), Str(t), Num(a))
    \/ \E c \in in.calls, k \in in.clients :
          \E f \in in.symbols, t \in in.symbols : GetExchangeRange(c, k, Str(f), Str(t))
    \/ \E c \in in.calls, k \in in.clients :
          \E x \in in.exchanges : CreateExchange(c, k, x)
    \/ \E c \in in.calls, k \in in.clients :
          \E id \in in.swapIds : GetExchangeStatus(c, k, Str(id))
    \/ \E c \in in.calls, k \in in.clients : GetSwapHistory(c, k)
    \/ \E c \in in.calls, k \in in.clients :
          \E id \in in.swapIds : GetSwapDetails(c, k, Str(id))
    \/ \E c \in in.calls : Intercept(c)
    \/ \E c \in in.calls : \E r \in in.responses : TransportFulfils(c, r)
    \/ \E c \in in.calls : \E e \in in.errors : TransportRejects(c, e)

\* Spec: one client and one call, over every argument, construction option
\* and transport outcome of the input sets.
AllInputs ==
    [ clients |-> {1}, calls |-> {1}, options |-> HeaderOptions,
      tokens |-> Tokens, symbols |-> Symbols, amounts |-> Amounts, swapIds |-> SwapIds,
      exchanges |-> ExchangeRequests, responses |-> Responses, errors |-> RawErrors ]

Init == InitWith(AllInputs)
Next == Step(AllInputs)
Spec == Init /\ [][Next]_vars

\* SpecConcurrent: one client with up to MaxCalls calls in flight together,
\* each endpoint with one argument list, one transport outcome of each kind.
FewInputs ==
    [ clients |-> {1}, calls |-> 1 .. MaxCalls, options |-> {NoOptions},
      tokens |-> {"tokA"}, symbols |-> {"zec"}, amounts |-> {1}, swapIds |-> {"swap-123"},
      exchanges |-> {x \in ExchangeRequests : "refundAddress" \notin DOMAIN x.fields
                                              /\ "refundExtraId" \notin DOMAIN x.fields},
      responses |-> {Obj([status |-> Num(200), data |-> Obj(NoFields)])},
      errors |-> { Obj([response |-> Obj([status |-> Num(400),
                                          data |-> Obj([message |-> Str("Invalid parameters"),
                                                        code |-> Str("INVALID_PARAMS")])])]),
                   Obj([request |-> Obj(NoFields)]) } ]

InitConcurrent == InitWith(FewInputs)
NextConcurrent == Step(FewInputs)
SpecConcurrent == InitConcurrent /\ [][NextConcurrent]_vars

\* SpecClients: up to MaxClients SwapSDK instances, constructed with or
\* without a base URL of their own, and one call made through any of them.
ManyClients ==
    [ clients |-> 1 .. MaxClients, calls |-> {1},
      options |-> {NoOptions, [baseURL |-> "https://api.test.com"]},
      tokens |-> {"tokA", "tokB"}, symbols |-> FewInputs.symbols,
      amounts |-> FewInputs.amounts, swapIds |-> FewInputs.swapIds,
      exchanges |-> FewInputs.exchanges, responses |-> FewInputs.responses,
      errors |-> FewInputs.errors ]

InitClients == InitWith(ManyClients)
NextClients == Step(ManyClients)
SpecClients == InitClients /\ [][NextClients]_vars

\* SpecPairs: one client and a pair of calls, the swap ids ranging over
\* SwapIds, to set the requests of two endpoint calls side by side.
PairInputs ==
    [ clients |-> {1}, calls |-> {1, 2}, options |-> {NoOptions},
      tokens |-> FewInputs.tokens, symbols |-> FewInputs.symbols,
      amounts |-> FewInputs.amounts, swapIds |-> SwapIds,
      exchanges |-> FewInputs.exchanges, responses |-> FewInputs.responses,
      errors |-> FewInputs.errors ]

InitPairs == InitWith(PairInputs)
NextPairs == Step(PairInputs)
SpecPairs == InitPairs /\ [][NextPairs]_vars

---------------------------------------------------------------------------
(* Properties.                                                             *)

CallIds == DOMAIN calls
Started(c) == calls[c].stage # "idle"
PastInterceptor(c) == calls[c].stage \in {"sent", "settled"}
Settled(c) == calls[c].stage = "settled"
Fulfilled(c) == Settled(c) /\ calls[c].outcome.state = "fulfilled"
Rejected(c) == Settled(c) /\ calls[c].outcome.state = "rejected"
Headers(c) == calls[c].config.headers

\* the step in which the request interceptor runs on call c
Intercepts(c) == calls[c].stage = "issued" /\ calls'[c].stage = "sent"

NonEmptyToken(tok) == tok.type = "string" /\ tok.value # ""

\* what the claims expect of the headers after interception under token tok
CarriesToken(c, tok) ==
    /\ "x-auth-token" \in DOMAIN calls'[c].config.headers
    /\ calls'[c].config.headers["x-auth-token"] = tok.value
CarriesNoToken(c) == "x-auth-token" \notin DOMAIN calls'[c].config.headers

\* C1 as claimed: a request issued and intercepted under the current token
\* carries x-auth-token with exactly that token, whatever string it is, and
\* carries no x-auth-token when no token is set (never set, or cleared).
C1_Claimed ==
    [][\A c \in CallIds :
         (Intercepts(c) /\ calls[c].issuedWith = authToken[calls[c].sdk]) =>
            IF authToken[calls[c].sdk] = Undefined
            THEN CarriesNoToken(c)
            ELSE CarriesToken(c, authToken[calls[c].sdk])]_vars

\* C1 amended: a request whose interceptor runs while a non-empty token t is
\* current carries x-auth-token = t, its other headers being the client's
\* default headers; a request whose interceptor runs while no token or the
\* empty string is set leaves with exactly the client's default headers (an
\* x-auth-token only if the construction options supplied one).
C1_TokenHeader ==
    [][\A c \in CallIds :
         Intercepts(c) =>
            LET tok == authToken[calls[c].sdk]
                defaults == client[calls[c].sdk].headers
                sent == calls'[c].config.headers
            IN  IF NonEmptyToken(tok)
                THEN /\ CarriesToken(c, tok)
                     /\ DOMAIN sent = DOMAIN defaults \cup {"x-auth-token"}
                     /\ \A h \in DOMAIN defaults \ {"x-auth-token"} : sent[h] = defaults[h]
                ELSE sent = defaults]_vars

\* C1 witness: setAuthToken("tokA") was the last accessor call and a request
\* is on its way carrying x-auth-token: tokA.
C1_Witness ==
    \E c \in CallIds :
        /\ calls[c].stage = "sent"
        /\ lastAccessor[calls[c].sdk] = [op |-> "setAuthToken", token |-> Str("tokA")]
        /\ "x-auth-token" \in DOMAIN Headers(c)
        /\ Headers(c)["x-auth-token"] = "tokA"

\* C2 as claimed: a request is sent with the token that was current when
\* its endpoint method was invoked, whatever accessor calls came between
\* the invocation and the interceptor.
C2_Claimed ==
    [][\A c \in CallIds :
         Intercepts(c) =>
            IF NonEmptyToken(calls[c].issuedWith)
            THEN CarriesToken(c, calls[c].issuedWith)
            ELSE calls'[c].config.headers = client[calls[c].sdk].headers]_vars

\* C2 amended: a request already past the interceptor keeps the headers it
\* captured whatever accessor calls follow; a token change takes effect for
\* every request whose interceptor has not run yet, also when its endpoint
\* method was invoked before the change.
C2_TokenReadAtInterceptor ==
    [][\A c \in CallIds :
         /\ PastInterceptor(c) => calls'[c].config = calls[c].config
         /\ (Intercepts(c) /\ calls[c].issuedWith # authToken[calls[c].sdk]) =>
               IF NonEmptyToken(authToken[calls[c].sdk])
               THEN CarriesToken(c, authToken[calls[c].sdk])
               ELSE calls'[c].config.headers = client[calls[c].sdk].headers]_vars

\* C2 witness: a request was sent carrying tokA, and the token is tokB now.
C2_Witness ==
    \E c \in CallIds :
        /\ calls[c].stage = "sent"
        /\ "x-auth-token" \in DOMAIN Headers(c)
        /\ Headers(c)["x-auth-token"] = "tokA"
        /\ authToken[calls[c].sdk] = Str("tokB")

\* the raw error of a rejected call, and the body of its response
HasField(v, k) == v.type = "object" /\ k \in DOMAIN v.fields
RawError(c) == calls[c].raw
Reason(c) == calls[c].outcome.reason
ErrorBody(c) ==
    IF HasField(RawError(c).fields.response, "data")
    THEN RawError(c).fields.response.fields.data
    ELSE Undefined
Remote(c) == Rejected(c) /\ HasField(RawError(c), "response")
Unreachable(c) ==
    Rejected(c) /\ ~HasField(RawError(c), "response") /\ HasField(RawError(c), "request")
Unsendable(c) ==
    Rejected(c) /\ ~HasField(RawError(c), "response") /\ ~HasField(RawError(c), "request")

\* C3 as claimed: on a non-2xx answer the error's message is the body's
\* message field if the body has one, else its error field if it has one,
\* else "Unknown error occurred"; its code is the body's code field, absent
\* when the body has none.
C3_Claimed ==
    \A c \in CallIds :
        Remote(c) =>
            /\ Reason(c).message =
                  IF HasField(ErrorBody(c), "message") THEN ErrorBody(c).fields.message
                  ELSE IF HasField(ErrorBody(c), "error") THEN ErrorBody(c).fields.error
                  ELSE Str("Unknown error occurred")
            /\ Reason(c).code =
                  IF HasField(ErrorBody(c), "code") THEN ErrorBody(c).fields.code
                  ELSE Undefined

\* C3 amended: the message is the body's message field if the body has a
\* non-empty one, else its error field if it has a non-empty one, else
\* "Unknown error occurred"; the code is the body's code field, absent when
\* the body has none.
C3_RemoteMessage ==
    \A c \in CallIds :
        Remote(c) =>
            /\ Reason(c).message =
                  IF HasField(ErrorBody(c), "message") /\ ErrorBody(c).fields.message # Str("")
                  THEN ErrorBody(c).fields.message
                  ELSE IF HasField(ErrorBody(c), "error") /\ ErrorBody(c).fields.error # Str("")
                  THEN ErrorBody(c).fields.error
                  ELSE Str("Unknown error occurred")
            /\ Reason(c).code =
                  IF HasField(ErrorBody(c), "code") THEN ErrorBody(c).fields.code
                  ELSE Undefined

\* C3 witness: the body has an empty message and an error field, and the
\* call was rejected with the error field as its message.
C3_Witness ==
    \E c \in CallIds :
        /\ Remote(c)
        /\ HasField(ErrorBody(c), "message") /\ ErrorBody(c).fields.message = Str("")
        /\ HasField(ErrorBody(c), "error")
        /\ Reason(c).message = Str("Bad Request")

\* C4: a failed call is rejected as exactly one of three kinds, chosen by
\* the raw error: with a response (a request beside it or not) the remote
\* rejection built from the response body; with a request and no response
\* the fixed network message and no code; with neither "Request error: "
\* followed by the raw error's message, and no code.
C4_ThreeKinds ==
    \A c \in CallIds :
        Rejected(c) =>
            /\ Reason(c).name = "SwapAPIError"
            /\ Remote(c) =>
                  /\ Reason(c).message \in
                        { OptChain(ErrorBody(c), "message"), OptChain(ErrorBody(c), "error"),
                          Str("Unknown error occurred") }
                  /\ Reason(c).message # Undefined
                  /\ Reason(c).code = OptChain(ErrorBody(c), "code")
            /\ Unreachable(c) =>
                  /\ Reason(c).message = Str("Network error: No response received from server")
                  /\ Reason(c).code = Undefined
            /\ Unsendable(c) =>
                  /\ Reason(c).message =
                        Str("Request error: " \o
                            (IF HasField(RawError(c), "message")
                             THEN RawError(c).fields.message.value ELSE "undefined"))
                  /\ Reason(c).code = Undefined

\* C4 witness: the raw error carried a response and a request, and the call
\* was rejected with the message and the code of the response body.
C4_Witness ==
    \E c \in CallIds :
        /\ Remote(c) /\ HasField(RawError(c), "request")
        /\ Reason(c).message = Str("Invalid parameters")
        /\ Reason(c).code = Str("INVALID_PARAMS")

\* C5 as claimed: a rejection without a code is never a remote rejection.
C5_Claimed ==
    \A c \in CallIds : (Rejected(c) /\ Reason(c).code = Undefined) => ~Remote(c)

\* C5 amended: a rejection that carries a code is a remote rejection, and
\* the unreachable and unsendable kinds never carry one; a remote rejection
\* carries a code exactly when the response body has a code field, so the
\* absence of a code does not tell the kinds apart.
C5_CodeMeansRemote ==
    \A c \in CallIds :
        /\ (Rejected(c) /\ Reason(c).code # Undefined) => Remote(c)
        /\ Remote(c) => (Reason(c).code = Undefined <=> ~HasField(ErrorBody(c), "code"))

\* C5 witness: a remote rejection without a code, its body having a message
\* and no code field.
C5_Witness ==
    \E c \in CallIds :
        /\ Remote(c)
        /\ Reason(c).code = Undefined
        /\ Reason(c).message = Str("Invalid parameters")

\* C6: a call whose transport answered 2xx with body B resolves with
\* exactly B, whatever the token and whatever went before.
C6_BodyPassThrough ==
    \A c \in CallIds : Fulfilled(c) => calls[c].outcome.value = calls[c].raw.fields.data

\* C6 witness: a call resolved with an empty-string body while a token was set.
C6_Witness ==
    \E c \in CallIds :
        /\ Fulfilled(c)
        /\ calls[c].raw.fields.data = Str("")
        /\ calls[c].outcome.value = Str("")
        /\ authToken[calls[c].sdk] = Str("tokA")

\* the endpoint table: the request of method `name` called with `args`
TableRequest(name, args) ==
    CASE name = "getCurrencies" ->
           [method |-> "get", url |-> "/swap/currencies", params |-> Undefined, data |-> Undefined]
      [] name = "getSwapHistory" ->
           [method |-> "get", url |-> "/swap/history", params |-> Undefined, data |-> Undefined]
      [] name = "getExchangeStatus" ->
           [method |-> "get", url |-> "/swap/status/" \o args[1].value,
            params |-> Undefined, data |-> Undefined]
      [] name = "getSwapDetails" ->
           [method |-> "get", url |-> "/swap/" \o args[1].value,
            params |-> Undefined, data |-> Undefined]
      [] name = "getExchangeRange" ->
           [method |-> "get", url |-> "/swap/range",
            params |-> Obj([fromCurrency |-> args[1], toCurrency |-> args[2]]),
            data |-> Undefined]
      [] name = "getExchangeRate" ->
           [method |-> "post", url |-> "/swap/estimate", params |-> Undefined,
            data |-> Obj([fromCurrency |-> args[1], toCurrency |-> args[2], amount |-> args[3]])]
      [] name = "createExchange" ->
           [method |-> "post", url |-> "/swap/create", params |-> Undefined, data |-> args[1]]

\* C7: the request of every endpoint call has the method, the path and the
\* parameter placement of the endpoint table, from the call to its end.
C7_EndpointTable ==
    \A c \in CallIds :
        Started(c) =>
            LET want == TableRequest(calls[c].op, calls[c].args)
                have == calls[c].config
            IN  /\ have.method = want.method
                /\ have.url = want.url
                /\ have.params = want.params
                /\ have.data = want.data

\* C7 witness: getExchangeRange("zec", "sol") was sent as GET /swap/range
\* with the two symbols as query parameters and no body.
C7_Witness ==
    \E c \in CallIds :
        /\ calls[c].stage = "sent"
        /\ calls[c].op = "getExchangeRange"
        /\ calls[c].args = <<Str("zec"), Str("sol")>>
        /\ calls[c].config.method = "get"
        /\ calls[c].config.url = "/swap/range"
        /\ calls[c].config.params = Obj([fromCurrency |-> Str("zec"), toCurrency |-> Str("sol")])
        /\ calls[c].config.data = Undefined

\* C8: getAuthToken() returns the argument of the most recent setAuthToken
\* when no clearAuthToken came after it, and undefined after construction
\* and after clearAuthToken(); endpoint calls, settled or not, change nothing.
C8_GetAuthToken ==
    \A k \in DOMAIN authToken :
        GetAuthToken(k) =
            IF lastAccessor[k].op = "setAuthToken" THEN lastAccessor[k].token ELSE Undefined

\* C8 witness: a request left carrying tokA, setAuthToken("") came after
\* it and the call failed; getAuthToken() returns the empty string.
C8_Witness ==
    \E c \in CallIds :
        /\ Rejected(c)
        /\ "x-auth-token" \in DOMAIN Headers(c)
        /\ Headers(c)["x-auth-token"] = "tokA"
        /\ lastAccessor[calls[c].sdk] = [op |-> "setAuthToken", token |-> Str("")]
        /\ GetAuthToken(calls[c].sdk) = Str("")

\* C9 as claimed: every request carries Content-Type: application/json,
\* whatever headers the construction options gave.
C9_Claimed ==
    \A c \in CallIds :
        Started(c) =>
            /\ "Content-Type" \in DOMAIN Headers(c)
            /\ Headers(c)["Content-Type"] = "application/json"

\* the Content-Type the construction options of client k ask for, if any
OptionContentType(k) ==
    IF "headers" \in DOMAIN options[k] /\ "Content-Type" \in DOMAIN options[k].headers
    THEN {options[k].headers["Content-Type"]}
    ELSE {}

\* C9 amended: every request carries a Content-Type header; it is
\* application/json unless the headers of the construction options hold a
\* Content-Type of their own, which then replaces it.
C9_ContentType ==
    \A c \in CallIds :
        Started(c) =>
            /\ "Content-Type" \in DOMAIN Headers(c)
            /\ IF OptionContentType(calls[c].sdk) = {}
               THEN Headers(c)["Content-Type"] = "application/json"
               ELSE Headers(c)["Content-Type"] \in OptionContentType(calls[c].sdk)

\* C9 witness: a request was sent with the Content-Type: text/plain of the
\* construction options.
C9_Witness ==
    \E c \in CallIds :
        /\ calls[c].stage = "sent"
        /\ OptionContentType(calls[c].sdk) = {"text/plain"}
        /\ Headers(c)["Content-Type"] = "text/plain"

\* C10: every endpoint call makes one transport call, and once the
\* transport settles the call has one outcome, fulfilled or rejected, which
\* never changes afterwards; no request is sent again, also with several
\* calls in flight.
C10_OneRequestOneOutcome ==
    /\ [](\A c \in CallIds :
            /\ Started(c) => calls[c].transportCalls = 1
            /\ Settled(c) => /\ calls[c].settlements = 1
                             /\ calls[c].outcome.state \in {"fulfilled", "rejected"})
    /\ [][\A c \in CallIds :
            /\ Settled(c) => calls'[c] = calls[c]
            /\ Started(c) => /\ Started(c)'
                             /\ calls'[c].transportCalls = calls[c].transportCalls]_vars

\* C10 witness: one call was rejected and stays settled while another call
\* of the same client is still on its way.
C10_Witness ==
    \E c, d \in CallIds :
        /\ c # d
        /\ Rejected(c)
        /\ calls[d].stage = "sent"
        /\ calls[c].sdk = calls[d].sdk

\* the calls whose client.get/post promise rejected
ClientRejected(c) == Settled(c) /\ "thrown" \in DOMAIN calls[c]

\* C11: when the get/post call of the underlying client rejects with E, the
\* endpoint method, whichever of the seven it is, rejects with exactly E and
\* does not resolve.
C11_RejectionPropagates ==
    \A c \in CallIds :
        ClientRejected(c) =>
            /\ calls[c].outcome.state = "rejected"
            /\ calls[c].outcome.reason = calls[c].thrown

\* C11 witness: createExchange was rejected with the normalized error of a
\* 400 response, message and code as the client's promise delivered them.
C11_Witness ==
    \E c \in CallIds :
        /\ ClientRejected(c)
        /\ calls[c].op = "createExchange"
        /\ calls[c].thrown =
              SwapAPIError(Str("Invalid parameters"), Str("INVALID_PARAMS"))
        /\ calls[c].outcome = [state |-> "rejected", reason |-> calls[c].thrown]

ClientIds == DOMAIN client

\* the step is a setAuthToken or clearAuthToken call on client a
AccessorOn(a) == lastAccessor'[a] # lastAccessor[a] \/ authToken'[a] # authToken[a]

\* C12: clients are isolated.  A setAuthToken/clearAuthToken on client A
\* changes neither what getAuthToken() returns on another client B nor any
\* request; the x-auth-token a request made through B leaves with is decided
\* by B's own last accessor call alone; and a request made through a client
\* is handled by that client's axios instance (its base URL and, until the
\* interceptor runs, exactly its default headers).
C12_ClientsIsolated ==
    /\ [](\A c \in CallIds :
            Started(c) =>
                /\ calls[c].config.baseURL = client[calls[c].sdk].baseURL
                /\ ~PastInterceptor(c) => Headers(c) = client[calls[c].sdk].headers)
    /\ [][/\ \A a \in ClientIds :
                AccessorOn(a) =>
                    /\ \A b \in ClientIds \ {a} : GetAuthToken(b)' = GetAuthToken(b)
                    /\ calls' = calls
          /\ \A c \in CallIds :
                Intercepts(c) =>
                    LET own == lastAccessor[calls[c].sdk]
                        sent == calls'[c].config.headers
                    IN  IF own.op = "setAuthToken" /\ NonEmptyToken(own.token)
                        THEN /\ "x-auth-token" \in DOMAIN sent
                             /\ sent["x-auth-token"] = own.token.value
                        ELSE sent = Headers(c)]_vars

\* C12 witness: client 1 holds tokA, client 2 was constructed with another
\* base URL and cleared its token after setting one; a request made through
\* client 2 was sent to client 2's base URL without an x-auth-token.
C12_Witness ==
    \E c \in CallIds :
        /\ {1, 2} \subseteq ClientIds
        /\ GetAuthToken(1) = Str("tokA")
        /\ lastAccessor[2] = [op |-> "clearAuthToken"]
        /\ client[1].baseURL # client[2].baseURL
        /\ PastInterceptor(c)
        /\ calls[c].sdk = 2
        /\ calls[c].config.baseURL = client[2].baseURL
        /\ "x-auth-token" \notin DOMAIN Headers(c)

\* the (method, path) of the request dispatched for call c
Dispatched(c) == <<calls[c].config.method, calls[c].config.url>>
SwapIdOf(c) == calls[c].args[1].value

\* C13 as claimed: for a non-empty swapId the request of getSwapDetails
\* differs from those of getCurrencies, getSwapHistory, getExchangeRange and
\* getExchangeStatus, and the request of getExchangeStatus differs from that
\* of every other endpoint method.
C13_Claimed ==
    \A c, d \in CallIds :
        /\ Started(c) /\ Started(d)
        /\ \/ /\ calls[c].op = "getSwapDetails"
              /\ SwapIdOf(c) # ""
              /\ calls[d].op \in {"getCurrencies", "getSwapHistory",
                                  "getExchangeRange", "getExchangeStatus"}
           \/ /\ calls[c].op = "getExchangeStatus"
              /\ SwapIdOf(c) # ""
              /\ calls[d].op # "getExchangeStatus"
        => Dispatched(c) # Dispatched(d)

\* the swap id given to getSwapDetails in call c is the path of call d's
\* endpoint after "/swap/"
NamesEndpointOf(c, d) ==
    /\ calls[c].op = "getSwapDetails"
    /\ \/ calls[d].op = "getCurrencies" /\ SwapIdOf(c) = "currencies"
       \/ calls[d].op = "getSwapHistory" /\ SwapIdOf(c) = "history"
       \/ calls[d].op = "getExchangeRange" /\ SwapIdOf(c) = "range"
       \/ calls[d].op = "getExchangeStatus" /\ SwapIdOf(c) = "status/" \o SwapIdOf(d)

\* C13 amended: two calls of different endpoint methods dispatch the same
\* (method, path) exactly when one of them is getSwapDetails(swapId) with
\* swapId "currencies", "history", "range" or "status/" followed by the id
\* given to getExchangeStatus, and the other is the endpoint so named; in
\* every other case, the empty swapId included, their requests differ.
C13_RequestsDiffer ==
    \A c, d \in CallIds :
        Started(c) /\ Started(d) /\ calls[c].op # calls[d].op =>
            (Dispatched(c) = Dispatched(d)
                <=> NamesEndpointOf(c, d) \/ NamesEndpointOf(d, c))

\* C13 witness: getSwapDetails("swap-123") and getExchangeStatus("swap-123")
\* are both under way, as GET /swap/swap-123 and GET /swap/status/swap-123.
C13_Witness ==
    \E c, d \in CallIds :
        /\ Started(c) /\ Started(d)
        /\ calls[c].op = "getSwapDetails" /\ calls[c].args = <<Str("swap-123")>>
        /\ calls[d].op = "getExchangeStatus" /\ calls[d].args = <<Str("swap-123")>>
        /\ Dispatched(c) = <<"get", "/swap/swap-123">>
        /\ Dispatched(d) = <<"get", "/swap/status/swap-123">>

====
